---------------------------- MODULE Spec2Model ----------------------------
(***************************************************************************)
(* Model of the stress-accent engine of belarusian-tts-dataset:            *)
(*   - GrammarDBSQLite (grammardb-sqlite.ts): the lexicon index and its    *)
(*     import from the GrammarDB XML documents;                            *)
(*   - BelarusianAccentMarkerGrammarDB (accent-utils-grammardb.ts): lazy   *)
(*     initialization and the per-sentence annotation;                     *)
(*   - the two dataset generators (generate-dataset-openrouter.ts and      *)
(*     generate-dataset.ts): batch numbering, incremental saves, resume    *)
(*     and the retries of a batch.                                         *)
(*                                                                         *)
(* Strings are sequences of one-character strings.  The Cyrillic letters   *)
(* are written with Latin stand-ins:                                       *)
(*   "u" "U"  a vowel letter of the list 'аеёіоуыэюя' (у / У)              *)
(*   "b" "B"  a consonant (б / Б)                                          *)
(*   "w" "W"  the precomposed letter ў / Ў, NFD = у / У + U+0306           *)
(*   "/"      U+0301 COMBINING ACUTE ACCENT                                *)
(*   "^"      U+0306 COMBINING BREVE                                       *)
(*   "+"      the stress marker of the dictionary                          *)
(***************************************************************************)
EXTENDS Integers, Sequences, FiniteSets, TLC

VARIABLES
    files,              \* the source documents ./data/grammardb/*.xml (input)
    db,                 \* the SQLite index: stress_entries and word_forms
    gdbInitialized,     \* GrammarDBSQLite.initialized
    markerInitialized,  \* BelarusianAccentMarkerGrammarDB.initialized
    op,                 \* per caller: the call it is in
    pc,                 \* per caller: the await it is suspended at
    fileIdx,            \* per caller: position of importFromXML's file loop
    totalImported,      \* per caller: importFromXML's local totalImported
    res,                \* per caller: how its last call ended
    last,               \* value of the last resolved analyzeAndAccent()
    openRouter,         \* generate-dataset-openrouter.ts: one session of the
                        \* generator and the session's files
    gemini              \* generate-dataset.ts: one session of the generator
                        \* and the session's files

\* the two dataset generators
generators == <<openRouter, gemini>>

vars == <<files, db, gdbInitialized, markerInitialized, op, pc, fileIdx,
          totalImported, res, last, openRouter, gemini>>

-----------------------------------------------------------------------------
(* Bounds *)

\* Number of document names importFromXML walks through (17 in the code).
NumFiles == 3
\* Number of concurrent callers of the accent marker.
NumCallers == 2
\* Longest input text of analyzeAndAccent.
MaxTextLen == 3

Files == 1..NumFiles
Callers == 1..NumCallers

-----------------------------------------------------------------------------
(* Characters *)

ACUTE == "/"
BREVE == "^"
MARKER == "+"

\* \s of the two regular expressions of analyzeAndAccent
WhitespaceChars == {" "}
\* [.,!?;:«»"'()—-] of the two regular expressions of analyzeAndAccent
PunctChars == {".", ",", "!", "?", ";", ":", "<", ">", "\"", "'", "(", ")", "_", "-"}
\* 'аеёіоуыэюя'
LowerVowels == {"a", "e", "i", "o", "u", "y"}
\* the range U+0300..U+036F of removeAccents' regular expression
CombiningRange == {ACUTE, BREVE}

\* Characters the input texts are drawn from.
InputChars == {"u", "U", "b", "w", "W", ACUTE, BREVE, " ", ","}

ToLowerChar(c) ==
    CASE c = "U" -> "u"
      [] c = "B" -> "b"
      [] c = "W" -> "w"
      [] OTHER -> c

ToUpperChar(c) ==
    CASE c = "u" -> "U"
      [] c = "b" -> "B"
      [] c = "w" -> "W"
      [] OTHER -> c

ToLowerCase(s) == [i \in 1..Len(s) |-> ToLowerChar(s[i])]
ToUpperCase(s) == [i \in 1..Len(s) |-> ToUpperChar(s[i])]

\* s.slice(from) with a 0-based index
SliceFrom(s, from) == SubSeq(s, from + 1, Len(s))
\* s.slice(0, to) with a 0-based exclusive end
SliceTo(s, to) == SubSeq(s, 1, to)

RECURSIVE Concat(_)
\* Array.prototype.join('')
Concat(ss) == IF ss = <<>> THEN <<>> ELSE Head(ss) \o Concat(Tail(ss))

\* String.prototype.normalize('NFD'): canonical decomposition.  U+0301 and
\* U+0306 have the same combining class, so no reordering takes place.
NFDChar(c) ==
    CASE c = "w" -> <<"u", BREVE>>
      [] c = "W" -> <<"U", BREVE>>
      [] OTHER -> <<c>>

NFD(s) == Concat([i \in 1..Len(s) |-> NFDChar(s[i])])

RemoveAccentsMutant(text) == SelectSeq(NFD(text), LAMBDA c : c # BREVE)

\* removeAccents
RemoveAccents(text) == SelectSeq(NFD(text), LAMBDA c : c \notin CombiningRange)

-----------------------------------------------------------------------------
(* Tokenization *)

IsDelimChar(c) == c \in WhitespaceChars \cup PunctChars

RECURSIVE WhitespaceRunEnd(_, _)
\* last index of the run of whitespace that starts at i (\s+ is greedy)
WhitespaceRunEnd(s, i) ==
    IF i < Len(s) /\ s[i + 1] \in WhitespaceChars
    THEN WhitespaceRunEnd(s, i + 1)
    ELSE i

RECURSIVE SplitFrom(_, _, _, _)
SplitFrom(s, i, word, acc) ==
    IF i > Len(s) THEN Append(acc, word)
    ELSE IF s[i] \in WhitespaceChars
    THEN LET j == WhitespaceRunEnd(s, i)
         IN  SplitFrom(s, j + 1, <<>>, acc \o <<word, SubSeq(s, i, j)>>)
    ELSE IF s[i] \in PunctChars
    THEN SplitFrom(s, i + 1, <<>>, acc \o <<word, <<s[i]>>>>)
    ELSE SplitFrom(s, i + 1, Append(word, s[i]), acc)

\* text.split(/(\s+|[.,!?;:«»"'()—-])/): the pieces between the matches and,
\* because of the capturing group, the matches themselves
SplitText(text) == SplitFrom(text, 1, <<>>, <<>>)

\* /^[\s.,!?;:«»"'()—-]+$/.test(part)
IsDelimiterPart(part) ==
    /\ Len(part) > 0
    /\ \A i \in 1..Len(part) : IsDelimChar(part[i])

-----------------------------------------------------------------------------
(* The index (grammardb-sqlite.ts) *)

\* Dictionary identifiers that occur in slouniki attributes.  "sbm2012:1" is an
\* identifier with a suffix: it contains "sbm2012" as a substring.
SourceIds == {"tsbm1984", "sbm2012:1", "krapiva2012"}

\* String.prototype.includes(dict) on one comma-separated part of the sources
SourceIncludes(source, dict) ==
    \/ source = dict
    \/ <<source, dict>> \in {<<"sbm2012:1", "sbm2012">>}

GeneralDictionaries == {"tsbm1984", "sbm2012", "tsblm1996", "biryla1987"}

\* The two tables after CREATE TABLE: stress_entries is keyed by lemma
\* (PRIMARY KEY), word_forms is a list of rows in insertion order.
EmptyDb == [entries |-> <<>>, forms |-> <<>>]

\* SELECT COUNT(*) FROM stress_entries
CountEntries(d) == Len(d.entries)

LemmaKeys(d) == {d.entries[i].lemma : i \in 1..Len(d.entries)}

EntryOf(d, lemma) ==
    LET i == CHOOSE i \in 1..Len(d.entries) : d.entries[i].lemma = lemma
    IN  d.entries[i]

InsertStressMutant(d, row) ==
    IF row.lemma \in LemmaKeys(d) THEN d
    ELSE [d EXCEPT !.entries = Append(d.entries, row)]

\* INSERT OR REPLACE INTO stress_entries: the row with the same primary key is
\* deleted and the new row is appended
InsertStress(d, row) ==
    [d EXCEPT !.entries =
        Append(SelectSeq(d.entries, LAMBDA e : e.lemma # row.lemma), row)]

\* INSERT INTO word_forms
InsertForm(d, row) == [d EXCEPT !.forms = Append(d.forms, row)]

RECURSIVE IndexOfFrom(_, _, _)
IndexOfFrom(s, c, i) ==
    IF i > Len(s) THEN -1
    ELSE IF s[i] = c THEN i - 1
    ELSE IndexOfFrom(s, c, i + 1)

\* String.prototype.indexOf(c): 0-based, -1 when absent
IndexOf(s, c) == IndexOfFrom(s, c, 1)

\* s.replace(/\+/g, '')
StripMarker(s) == SelectSeq(s, LAMBDA c : c # MARKER)

\* checkIfTechnical
CheckIfTechnical(sources) ==
    ~ \E i \in 1..Len(sources) :
        \E dict \in GeneralDictionaries : SourceIncludes(sources[i], dict)

RECURSIVE ImportForms(_, _, _)
\* the loop over variant.Form; a form whose text is a number makes
\* text.replace throw
ImportForms(st, lemma, forms) ==
    IF forms = <<>> \/ st.threw THEN st
    ELSE LET form == Head(forms)
             next ==
                 IF form.tag # <<>> /\ (form.numeric \/ form.text # <<>>)
                 THEN IF form.numeric
                      THEN [st EXCEPT !.threw = TRUE]
                      ELSE [st EXCEPT !.db = InsertForm(st.db,
                               [form |-> StripMarker(form.text),
                                lemma |-> lemma,
                                form_tag |-> form.tag,
                                form_with_stress |-> form.text])]
                 ELSE st
         IN  ImportForms(next, lemma, Tail(forms))

RECURSIVE ImportVariants(_, _, _)
\* the loop over paradigm.Variant: the last non-empty slouniki wins
ImportVariants(st, lemma, variants) ==
    IF variants = <<>> \/ st.threw THEN st
    ELSE LET variant == Head(variants)
             st1 == IF variant.slouniki # <<>>
                    THEN [st EXCEPT !.sources = variant.slouniki,
                                    !.isTechnical = CheckIfTechnical(variant.slouniki)]
                    ELSE st
             st2 == ImportForms(st1, lemma, variant.forms)
         IN  ImportVariants(st2, lemma, Tail(variants))

\* the body of the loop over the paradigms of one document
ImportParadigm(d, paradigm) ==
    LET lemmaWithStress == paradigm.lemma
        lemma == StripMarker(lemmaWithStress)
        stressPosition == IndexOf(lemmaWithStress, MARKER)
        st0 == [db |-> d, threw |-> FALSE, sources |-> <<>>, isTechnical |-> FALSE]
        st == ImportVariants(st0, lemma, paradigm.variants)
    IN  IF lemmaWithStress = <<>> \/ stressPosition = -1
        THEN [db |-> d, threw |-> FALSE]
        ELSE IF st.threw
        THEN [db |-> d, threw |-> TRUE]
        ELSE [db |-> InsertStress(st.db,
                        [lemma |-> lemma,
                         lemma_with_stress |-> lemmaWithStress,
                         stress_position |-> stressPosition,
                         tag |-> paradigm.tag,
                         sources |-> st.sources,
                         is_technical |-> st.isTechnical]),
              threw |-> FALSE]

RECURSIVE ImportParadigms(_, _)
ImportParadigms(d, paradigms) ==
    IF paradigms = <<>> THEN [db |-> d, threw |-> FALSE]
    ELSE LET r == ImportParadigm(d, Head(paradigms))
         IN  IF r.threw THEN r ELSE ImportParadigms(r.db, Tail(paradigms))

ImportDataMutant(d, paradigms) == ImportParadigms(d, paradigms)

\* importData = db.transaction(...): all the paradigms of one document, or
\* none of them and the exception is thrown again
ImportData(d, paradigms) ==
    LET r == ImportParadigms(d, paradigms)
    IN  IF r.threw THEN [db |-> d, threw |-> TRUE] ELSE r

GetStressInfoMutant(d, word) ==
    LET key == SelectSeq(ToLowerCase(word), LAMBDA c : c \notin CombiningRange)
    IN  IF key \in LemmaKeys(d) THEN <<EntryOf(d, key)>> ELSE <<>>

\* getStressInfo: SELECT * FROM stress_entries WHERE lemma = ?; the result is
\* the empty sequence (null) or a one-element sequence
GetStressInfo(d, word) ==
    LET key == ToLowerCase(word)
    IN  IF key \in LemmaKeys(d) THEN <<EntryOf(d, key)>> ELSE <<>>

\* The rows the form query of getStressInfoByForm can return: the join of
\* word_forms and stress_entries on lemma, restricted to the form.
FormMatches(d, word) ==
    LET key == ToLowerCase(word)
    IN  {EntryOf(d, d.forms[i].lemma) :
            i \in {j \in 1..Len(d.forms) :
                     d.forms[j].form = key /\ d.forms[j].lemma \in LemmaKeys(d)}}

GetStressInfoByFormMutant(d, word) ==
    IF GetStressInfo(d, word) # <<>> THEN {GetStressInfo(d, word)}
    ELSE IF d.entries # <<>> THEN {<<d.entries[1]>>}
    ELSE {<<>>}

\* getStressInfoByForm: the lemma lookup, then the form lookup.  LIMIT 1
\* without ORDER BY returns any one of the matching rows, so the result is a
\* set of possible outcomes.
GetStressInfoByForm(d, word) ==
    IF GetStressInfo(d, word) # <<>> THEN {GetStressInfo(d, word)}
    ELSE IF FormMatches(d, word) # {} THEN {<<e>> : e \in FormMatches(d, word)}
    ELSE {<<>>}

IsVowel(c) == ToLowerChar(c) \in LowerVowels

RECURSIVE VowelAtOrAfter(_, _)
\* the forward loop of applyStressToWord (0-based), -1 when none
VowelAtOrAfter(word, i) ==
    IF i >= Len(word) THEN -1
    ELSE IF IsVowel(word[i + 1]) THEN i
    ELSE VowelAtOrAfter(word, i + 1)

RECURSIVE VowelBefore(_, _)
\* the backward loop of applyStressToWord (0-based), -1 when none
VowelBefore(word, i) ==
    IF i < 0 THEN -1
    ELSE IF IsVowel(word[i + 1]) THEN i
    ELSE VowelBefore(word, i - 1)

ApplyStressToWordMutant(word, stressPosition) ==
    IF stressPosition < 0 \/ stressPosition >= Len(word) THEN word
    ELSE LET fwd == VowelAtOrAfter(word, stressPosition)
             vowelIndex == IF fwd # -1 THEN fwd
                           ELSE VowelBefore(word, stressPosition - 1)
         IN  IF vowelIndex = -1 THEN word
             ELSE SliceTo(word, vowelIndex) \o <<ACUTE>>
                      \o SliceFrom(word, vowelIndex + 1)

\* applyStressToWord
ApplyStressToWord(word, stressPosition) ==
    IF stressPosition < 0 \/ stressPosition >= Len(word) THEN word
    ELSE LET fwd == VowelAtOrAfter(word, stressPosition)
             vowelIndex == IF fwd # -1 THEN fwd
                           ELSE VowelBefore(word, stressPosition - 1)
         IN  IF vowelIndex = -1 THEN word
             ELSE SliceTo(word, vowelIndex + 1) \o <<ACUTE>>
                      \o SliceFrom(word, vowelIndex + 1)

-----------------------------------------------------------------------------
(* The accent marker (accent-utils-grammardb.ts) *)

\* countSyllables: the matches of /[аеёіоуыэюя]/gi
CountSyllables(word) == Cardinality({i \in 1..Len(word) : IsVowel(word[i])})

\* stressInfo.tag.startsWith('V')
StartsWithV(tag) == Len(tag) > 0 /\ tag[1] = "V"

\* generalSources.some(dict => stressInfo.sources.includes(dict)): the
\* identifiers contain no comma, so a match lies within one part
HasGeneralSource(sources) ==
    \E dict \in GeneralDictionaries :
        \E i \in 1..Len(sources) : SourceIncludes(sources[i], dict)

\* potentialHomographs (line 125), in the stand-in alphabet: a two-vowel word,
\* as the five listed ones are
PotentialHomographs == {<<"u", "b", "u">>}

ShouldAccentWordMutant(word, stressInfo) ==
    IF CountSyllables(word) < 1 THEN FALSE
    ELSE IF stressInfo.is_technical THEN TRUE
    ELSE IF CountSyllables(word) >= 4 THEN TRUE
    ELSE IF stressInfo.tag # <<>>
            /\ (StartsWithV(stressInfo.tag) \/ stressInfo.tag = <<"N", "P">>)
    THEN TRUE
    ELSE IF stressInfo.sources # <<>>
    THEN ~ HasGeneralSource(stressInfo.sources)
    ELSE FALSE

ShouldAccentWordListMutant(word, stressInfo) ==
    IF CountSyllables(word) <= 1 THEN FALSE
    ELSE IF stressInfo.is_technical THEN TRUE
    ELSE IF CountSyllables(word) >= 4 THEN TRUE
    ELSE IF stressInfo.tag # <<>>
            /\ (StartsWithV(stressInfo.tag) \/ stressInfo.tag = <<"N", "P">>)
    THEN TRUE
    ELSE IF word \in PotentialHomographs THEN TRUE
    ELSE IF stressInfo.sources # <<>>
    THEN ~ HasGeneralSource(stressInfo.sources)
    ELSE FALSE

\* shouldAccentWord
ShouldAccentWord(word, stressInfo) ==
    IF CountSyllables(word) <= 1 THEN FALSE
    ELSE IF stressInfo.is_technical THEN TRUE
    ELSE IF CountSyllables(word) >= 4 THEN TRUE
    ELSE IF stressInfo.tag # <<>>
            /\ (StartsWithV(stressInfo.tag) \/ stressInfo.tag = <<"N", "P">>)
    THEN TRUE
    ELSE IF stressInfo.sources # <<>>
    THEN ~ HasGeneralSource(stressInfo.sources)
    ELSE FALSE

\* /[тц].*[ыі]|[кг].*[еэ]/.test(word): "t" stands for т and ц, "y" and "i"
\* for ы and і, "k" for к and г, "e" for е and э
ForeignPattern(word) ==
    \E i, j \in 1..Len(word) :
        /\ i < j
        /\ \/ word[i] \in {"t"} /\ word[j] \in {"y", "i"}
           \/ word[i] \in {"k"} /\ word[j] \in {"e"}

\* getAccentReason
GetAccentReason(word, stressInfo) ==
    IF stressInfo.is_technical THEN "uncommon"
    ELSE IF CountSyllables(word) >= 4 THEN "complex"
    ELSE IF ForeignPattern(word) /\ Len(word) > 6 THEN "foreign"
    ELSE IF word \in PotentialHomographs THEN "homograph"
    ELSE "complex"

RECURSIVE MixedCaseWalk(_, _, _, _, _)
\* the loop of preserveCase for a mixed-case original (i and j 0-based)
MixedCaseWalk(original, accented, i, j, result) ==
    IF ~ (i < Len(original) /\ j < Len(accented))
    THEN result \o SliceFrom(accented, j)
    ELSE LET cased == IF original[i + 1] = ToUpperChar(original[i + 1])
                      THEN ToUpperChar(accented[j + 1])
                      ELSE ToLowerChar(accented[j + 1])
             mark == j + 1 < Len(accented) /\ accented[j + 2] = ACUTE
         IN  IF mark
             THEN MixedCaseWalk(original, accented, i + 1, j + 2,
                                result \o <<cased, accented[j + 2]>>)
             ELSE MixedCaseWalk(original, accented, i + 1, j + 1,
                                Append(result, cased))

\* preserveCase
PreserveCase(original, accented) ==
    IF original = ToLowerCase(original) THEN accented
    ELSE IF original = ToUpperCase(original) THEN ToUpperCase(accented)
    ELSE IF /\ original[1] = ToUpperChar(original[1])
            /\ SliceFrom(original, 1) = ToLowerCase(SliceFrom(original, 1))
    THEN <<ToUpperChar(accented[1])>> \o ToLowerCase(SliceFrom(accented, 1))
    ELSE MixedCaseWalk(original, accented, 0, 0, <<>>)

\* The callback of words.map for one part.  info is the value returned by
\* getStressInfoByForm for this part (<<>> for null).
AccentPart(part, position, info) ==
    LET cleanWord == ToLowerCase(part)
    IN  IF IsDelimiterPart(part)
        THEN [part |-> part, out |-> part, position |-> position,
              info |-> <<>>, pushed |-> FALSE, reason |-> "none"]
        ELSE IF info # <<>> /\ ShouldAccentWord(cleanWord, info[1])
        THEN [part |-> part,
              out |-> PreserveCase(part,
                          ApplyStressToWord(part, info[1].stress_position)),
              position |-> position,
              info |-> info, pushed |-> TRUE,
              reason |-> GetAccentReason(cleanWord, info[1])]
        ELSE [part |-> part, out |-> part, position |-> position,
              info |-> info, pushed |-> FALSE, reason |-> "none"]

RECURSIVE AccentPartsMutant(_, _, _, _)
AccentPartsMutant(words, i, position, pick) ==
    IF i > Len(words) THEN <<>>
    ELSE <<AccentPart(words[i], position, pick[words[i]])>>
             \o AccentPartsMutant(words, i + 1,
                     IF IsDelimiterPart(words[i]) THEN position
                     ELSE position + Len(words[i]), pick)

RECURSIVE AccentParts(_, _, _, _)
\* words.map(...): position advances by part.length on every branch.  pick
\* gives, for each part, the row getStressInfoByForm returns for it.
AccentParts(words, i, position, pick) ==
    IF i > Len(words) THEN <<>>
    ELSE <<AccentPart(words[i], position, pick[words[i]])>>
             \o AccentParts(words, i + 1, position + Len(words[i]), pick)

\* The synchronous part of analyzeAndAccent (lines 31-68): the value the
\* promise resolves to, together with the per-part record of what was done.
AnalyzeText(text, pick) ==
    LET words == SplitText(text)
        parts == AccentParts(words, 1, 0, pick)
        pushed == SelectSeq(parts, LAMBDA p : p.pushed)
    IN  [text |-> text,
         words |-> words,
         parts |-> parts,
         accentedText |-> Concat([i \in 1..Len(parts) |-> parts[i].out]),
         accentedWords |->
             [i \in 1..Len(pushed) |->
                 [word |-> pushed[i].part,
                  accentedForm |-> pushed[i].out,
                  position |-> pushed[i].position,
                  reason |-> pushed[i].reason]]]

\* The possible results of the lookups of one call: a function from the parts
\* of the text to the row getStressInfoByForm returns for each.
Picks(d, text) ==
    LET words == {SplitText(text)[i] : i \in 1..Len(SplitText(text))}
        lookups == UNION {GetStressInfoByForm(d, ToLowerCase(w)) : w \in words}
    IN  {pick \in [words -> lookups] :
            \A w \in words : pick[w] \in GetStressInfoByForm(d, ToLowerCase(w))}

-----------------------------------------------------------------------------
(* The source documents *)

Form(tag, text) == [tag |-> tag, text |-> text, numeric |-> FALSE]
\* <Form tag="...">7</Form>: fast-xml-parser hands the text over as a number
NumericForm(tag) == [tag |-> tag, text |-> <<>>, numeric |-> TRUE]
Variant(slouniki, forms) == [slouniki |-> slouniki, forms |-> forms]
Paradigm(lemma, tag, variants) == [lemma |-> lemma, tag |-> tag, variants |-> variants]

\* lemma "uwu", stress offset 2, attested by a specialised dictionary only;
\* its form "uu" is shorter than the lemma's stress offset
ParTechnical ==
    Paradigm(<<"u", "w", "+", "u">>, <<"N">>,
             <<Variant(<<"krapiva2012">>, <<Form(<<"N", "P", "N">>, <<"u", "+", "u">>)>>)>>)
\* lemma "bu", one vowel, specialised
ParTechnicalShort ==
    Paradigm(<<"b", "+", "u">>, <<"N">>, <<Variant(<<"krapiva2012">>, <<>>)>>)
\* lemma "ubu", a noun of a general-use dictionary, with the form "ub"
ParGeneral ==
    Paradigm(<<"u", "+", "b", "u">>, <<"N">>,
             <<Variant(<<"sbm2012:1", "krapiva2012">>,
                       <<Form(<<"N", "G">>, <<"u", "+", "b">>)>>)>>)
\* lemma "uu", a verb of a general-use dictionary, with the form "uub"
ParVerb ==
    Paradigm(<<"u", "+", "u">>, <<"V", "T">>,
             <<Variant(<<"tsbm1984">>, <<Form(<<"V", "1">>, <<"u", "+", "u", "b">>)>>)>>)
\* no stress marker: skipped
ParNoMarker == Paradigm(<<"b", "u", "b">>, <<"N">>, <<>>)
\* lemma "ubu" again, stress offset 0, a proper noun without variants
ParProper == Paradigm(<<"+", "u", "b", "u">>, <<"N", "P">>, <<>>)
\* lemma "buu" with the marker after its last letter, no variant at all
ParBare == Paradigm(<<"b", "u", "u", "+">>, <<"N">>, <<>>)
\* lemma "uub", a proper noun with a full tag, general-use; its form "uu" is
\* also a form of ParTechnical
ParProperTagged ==
    Paradigm(<<"u", "u", "+", "b">>, <<"N", "P", "I">>,
             <<Variant(<<"tsbm1984">>, <<Form(<<"N", "S">>, <<"u", "+", "u">>)>>)>>)
\* lemma "bub" whose second form has a numeric text
ParNumeric ==
    Paradigm(<<"b", "+", "u", "b">>, <<"N">>,
             <<Variant(<<"tsbm1984">>,
                       <<Form(<<"N", "S">>, <<"b", "+", "u">>), NumericForm(<<"N", "P">>)>>)>>)

\* A document: missing, present but rejected by the parser, or parsed into
\* its paradigms (parsed.Wordlist.Paradigm).
DocMissing == [status |-> "missing", paradigms |-> <<>>]
DocUnparseable == [status |-> "unparseable", paradigms |-> <<>>]
DocA == [status |-> "ok",
         paradigms |-> <<ParTechnical, ParTechnicalShort, ParGeneral, ParProperTagged>>]
DocB == [status |-> "ok", paradigms |-> <<ParVerb, ParNoMarker, ParProper, ParBare>>]
DocC == [status |-> "ok", paradigms |-> <<ParProper, ParNumeric>>]

DocPool == {DocMissing, DocUnparseable, DocA, DocB, DocC}

\* Input texts
AllTexts == UNION {[1..n -> InputChars] : n \in 0..MaxTextLen}
SampleTexts == {<<"u", "b", "u">>, <<"U", "u", ",">>}

-----------------------------------------------------------------------------
(* The calls *)

NoResult == [text |-> <<>>, words |-> <<>>, parts |-> <<>>,
             accentedText |-> <<>>, accentedWords |-> <<>>]

\* A generator that is not running: no process, no files.
NotRunning ==
    [pc |-> "off", sentences |-> <<>>, tempFile |-> <<>>, tempExists |-> FALSE,
     sessionFile |-> <<>>, sessionExists |-> FALSE, runs |-> 0]

GeneratorsOff ==
    /\ openRouter = NotRunning
    /\ gemini = NotRunning

Init ==
    /\ files \in [Files -> DocPool]
    /\ db = EmptyDb
    /\ gdbInitialized = FALSE
    /\ markerInitialized = FALSE
    /\ op = [c \in Callers |-> "none"]
    /\ pc = [c \in Callers |-> "idle"]
    /\ fileIdx = [c \in Callers |-> 0]
    /\ totalImported = [c \in Callers |-> 0]
    /\ res = [c \in Callers |-> "none"]
    /\ last = NoResult
    /\ GeneratorsOff

\* GrammarDBSQLite.initialize(): opens the database file and creates the
\* tables if they do not exist; the rows on disk are kept
GdbInitialize == gdbInitialized' = TRUE

\* analyzeAndAccent() on a marker that is not initialized: initialize() runs
\* up to its first await (line 14)
StartAnalyze(c) ==
    /\ pc[c] = "idle"
    /\ ~ markerInitialized
    /\ GdbInitialize
    /\ op' = [op EXCEPT ![c] = "annotate"]
    /\ pc' = [pc EXCEPT ![c] = "gdbInit"]
    /\ UNCHANGED <<files, db, markerInitialized, fileIdx, totalImported, res, last>>
    /\ UNCHANGED generators

\* analyzeAndAccent() on an initialized marker: no await, the whole call is
\* one synchronous run
AnalyzeSync(c, texts) ==
    /\ pc[c] = "idle"
    /\ markerInitialized
    /\ \E text \in texts : \E pick \in Picks(db, text) :
           last' = AnalyzeText(text, pick)
    /\ res' = [res EXCEPT ![c] = "ok"]
    /\ UNCHANGED <<files, db, gdbInitialized, markerInitialized, op, pc, fileIdx,
                   totalImported>>
    /\ UNCHANGED generators

\* initialize() on a marker that is not initialized (generate-dataset.ts:61)
StartInitialize(c) ==
    /\ pc[c] = "idle"
    /\ ~ markerInitialized
    /\ GdbInitialize
    /\ op' = [op EXCEPT ![c] = "initialize"]
    /\ pc' = [pc EXCEPT ![c] = "gdbInit"]
    /\ UNCHANGED <<files, db, markerInitialized, fileIdx, totalImported, res, last>>
    /\ UNCHANGED generators

\* initialize() on an initialized marker returns at once (line 11)
InitializeAgain(c) ==
    /\ pc[c] = "idle"
    /\ markerInitialized
    /\ res' = [res EXCEPT ![c] = "ok"]
    /\ UNCHANGED <<files, db, gdbInitialized, markerInitialized, op, pc, fileIdx,
                   totalImported, last>>
    /\ UNCHANGED generators

\* build-grammardb.ts:14-15: grammarDB.initialize(), then importFromXML()
StartBuild(c) ==
    /\ pc[c] = "idle"
    /\ GdbInitialize
    /\ op' = [op EXCEPT ![c] = "build"]
    /\ pc' = [pc EXCEPT ![c] = "gdbInit"]
    /\ UNCHANGED <<files, db, markerInitialized, fileIdx, totalImported, res, last>>
    /\ UNCHANGED generators

\* importFromXML() is called and runs up to its first await (line 62)
EnterImport(c) ==
    /\ pc[c] = "gdbInit"
    /\ GdbInitialize
    /\ pc' = [pc EXCEPT ![c] = "importInit"]
    /\ UNCHANGED <<files, db, markerInitialized, op, fileIdx, totalImported, res, last>>
    /\ UNCHANGED generators

ImportSkipMutant(c) ==
    /\ pc[c] = "importInit"
    /\ CountEntries(db) > 0
    /\ pc' = [pc EXCEPT ![c] = "exists"]
    /\ fileIdx' = [fileIdx EXCEPT ![c] = 1]
    /\ totalImported' = [totalImported EXCEPT ![c] = 0]
    /\ UNCHANGED <<files, db, gdbInitialized, markerInitialized, op, res, last>>
    /\ UNCHANGED generators

\* lines 65-69: the index already has entries, importFromXML returns
ImportSkip(c) ==
    /\ pc[c] = "importInit"
    /\ CountEntries(db) > 0
    /\ pc' = [pc EXCEPT ![c] = "imported"]
    /\ UNCHANGED <<files, db, gdbInitialized, markerInitialized, op, fileIdx,
                   totalImported, res, last>>
    /\ UNCHANGED generators

\* lines 65-150: the index is empty; the loop starts and awaits exists() of
\* the first document
ImportBegin(c) ==
    /\ pc[c] = "importInit"
    /\ CountEntries(db) = 0
    /\ pc' = [pc EXCEPT ![c] = "exists"]
    /\ fileIdx' = [fileIdx EXCEPT ![c] = 1]
    /\ totalImported' = [totalImported EXCEPT ![c] = 0]
    /\ UNCHANGED <<files, db, gdbInitialized, markerInitialized, op, res, last>>
    /\ UNCHANGED generators

\* The loop goes on to the next document name, or ends and importFromXML
\* returns (lines 148-171).
NextFile(c) ==
    IF fileIdx[c] < NumFiles
    THEN /\ fileIdx' = [fileIdx EXCEPT ![c] = fileIdx[c] + 1]
         /\ pc' = [pc EXCEPT ![c] = "exists"]
    ELSE /\ fileIdx' = fileIdx
         /\ pc' = [pc EXCEPT ![c] = "imported"]

\* line 150: the document does not exist
FileMissing(c) ==
    /\ pc[c] = "exists"
    /\ files[fileIdx[c]].status = "missing"
    /\ NextFile(c)
    /\ UNCHANGED <<files, db, gdbInitialized, markerInitialized, op,
                   totalImported, res, last>>
    /\ UNCHANGED generators

\* lines 150-153: the document exists, readFile is awaited
FileExists(c) ==
    /\ pc[c] = "exists"
    /\ files[fileIdx[c]].status # "missing"
    /\ pc' = [pc EXCEPT ![c] = "readFile"]
    /\ UNCHANGED <<files, db, gdbInitialized, markerInitialized, op, fileIdx,
                   totalImported, res, last>>
    /\ UNCHANGED generators

\* An exception leaves importFromXML, then initialize() before line 16, then
\* analyzeAndAccent: the caller's promise is rejected.
Raise(c) ==
    /\ pc' = [pc EXCEPT ![c] = "idle"]
    /\ op' = [op EXCEPT ![c] = "none"]
    /\ res' = [res EXCEPT ![c] = "raised"]

\* line 154: parser.parse throws; nothing in importFromXML catches it
ParseFails(c) ==
    /\ pc[c] = "readFile"
    /\ files[fileIdx[c]].status = "unparseable"
    /\ Raise(c)
    /\ UNCHANGED <<files, db, gdbInitialized, markerInitialized, fileIdx,
                   totalImported, last>>
    /\ UNCHANGED generators

\* lines 154-163: the document is parsed and its paradigms are imported in
\* one transaction
ImportDocument(c) ==
    /\ pc[c] = "readFile"
    /\ files[fileIdx[c]].status = "ok"
    /\ LET paradigms == files[fileIdx[c]].paradigms
           r == ImportData(db, paradigms)
       IN  /\ ~ r.threw
           /\ db' = r.db
           /\ totalImported' =
                  [totalImported EXCEPT ![c] = totalImported[c] + Len(paradigms)]
    /\ NextFile(c)
    /\ UNCHANGED <<files, gdbInitialized, markerInitialized, op, res, last>>
    /\ UNCHANGED generators

\* line 161: the transaction throws, the index is what the transaction leaves
\* behind, and the exception leaves importFromXML
ImportDocumentFails(c) ==
    /\ pc[c] = "readFile"
    /\ files[fileIdx[c]].status = "ok"
    /\ LET r == ImportData(db, files[fileIdx[c]].paradigms)
       IN  /\ r.threw
           /\ db' = r.db
    /\ Raise(c)
    /\ UNCHANGED <<files, gdbInitialized, markerInitialized, fileIdx,
                   totalImported, last>>
    /\ UNCHANGED generators

\* build-grammardb.ts: importFromXML() has returned to the build script
BuildDone(c) ==
    /\ pc[c] = "imported"
    /\ op[c] = "build"
    /\ pc' = [pc EXCEPT ![c] = "idle"]
    /\ op' = [op EXCEPT ![c] = "none"]
    /\ res' = [res EXCEPT ![c] = "ok"]
    /\ UNCHANGED <<files, db, gdbInitialized, markerInitialized, fileIdx,
                   totalImported, last>>
    /\ UNCHANGED generators

\* line 16 for a caller of initialize(): the flag is set and the call returns
InitializeDone(c) ==
    /\ pc[c] = "imported"
    /\ op[c] = "initialize"
    /\ markerInitialized' = TRUE
    /\ pc' = [pc EXCEPT ![c] = "idle"]
    /\ op' = [op EXCEPT ![c] = "none"]
    /\ res' = [res EXCEPT ![c] = "ok"]
    /\ UNCHANGED <<files, db, gdbInitialized, fileIdx, totalImported, last>>
    /\ UNCHANGED generators

\* line 16 inside analyzeAndAccent: the flag is set, initialize() returns and
\* analyzeAndAccent awaits it (line 28)
InitializeReturns(c) ==
    /\ pc[c] = "imported"
    /\ op[c] = "annotate"
    /\ markerInitialized' = TRUE
    /\ pc' = [pc EXCEPT ![c] = "initialized"]
    /\ UNCHANGED <<files, db, gdbInitialized, op, fileIdx, totalImported, res, last>>
    /\ UNCHANGED generators

\* lines 31-68 after the await of line 28
AnalyzeResumed(c, texts) ==
    /\ pc[c] = "initialized"
    /\ \E text \in texts : \E pick \in Picks(db, text) :
           last' = AnalyzeText(text, pick)
    /\ pc' = [pc EXCEPT ![c] = "idle"]
    /\ op' = [op EXCEPT ![c] = "none"]
    /\ res' = [res EXCEPT ![c] = "ok"]
    /\ UNCHANGED <<files, db, gdbInitialized, markerInitialized, fileIdx,
                   totalImported>>
    /\ UNCHANGED generators

Step(c) ==
    \/ StartAnalyze(c)
    \/ AnalyzeSync(c, SampleTexts)
    \/ StartInitialize(c)
    \/ InitializeAgain(c)
    \/ StartBuild(c)
    \/ EnterImport(c)
    \/ ImportSkip(c)
    \/ ImportBegin(c)
    \/ FileMissing(c)
    \/ FileExists(c)
    \/ ParseFails(c)
    \/ ImportDocument(c)
    \/ ImportDocumentFails(c)
    \/ BuildDone(c)
    \/ InitializeDone(c)
    \/ InitializeReturns(c)
    \/ AnalyzeResumed(c, SampleTexts)

\* Any number of callers in one process, interleaved at the awaits.
Next == \E c \in Callers : Step(c)

Spec == Init /\ [][Next]_vars

\* One caller: every call is awaited before the next one is made.
NextSeq == Step(1)

SpecSeq == Init /\ [][NextSeq]_vars

RECURSIVE ImportFiles(_, _, _, _)
\* The loop of importFromXML run without interruption from document i on:
\* the index it leaves, whether it threw, and the values of its locals.
ImportFiles(d, fs, i, total) ==
    IF i > NumFiles
    THEN [db |-> d, threw |-> FALSE, fileIdx |-> NumFiles, totalImported |-> total]
    ELSE IF fs[i].status = "missing" THEN ImportFiles(d, fs, i + 1, total)
    ELSE IF fs[i].status = "unparseable" \/ ImportData(d, fs[i].paradigms).threw
    THEN [db |-> d, threw |-> TRUE, fileIdx |-> i, totalImported |-> total]
    ELSE ImportFiles(ImportData(d, fs[i].paradigms).db, fs, i + 1,
                     total + Len(fs[i].paradigms))

\* The documents are well-formed ones followed by missing ones.  A missing
\* document in between or a failing one (which ends the import) leaves the
\* same index as the well-formed documents before it, so these inputs give
\* every index the import can leave.
WellFormedFirst(fs) ==
    \A i \in Files :
        \/ fs[i].status = "ok" /\ ~ ImportData(EmptyDb, fs[i].paradigms).threw
        \/ \A j \in i..NumFiles : fs[j].status = "missing"

\* The annotation alone.  Caller 1 is in analyzeAndAccent and resumes after
\* the await of line 28, its initialize() having imported the documents.
\* Texts of every shape are annotated.
InitAnnot ==
    /\ files \in [Files -> DocPool]
    /\ WellFormedFirst(files)
    /\ LET r == ImportFiles(EmptyDb, files, 1, 0)
       IN  /\ db = r.db
           /\ fileIdx = [c \in Callers |-> IF c = 1 THEN r.fileIdx ELSE 0]
           /\ totalImported = [c \in Callers |-> IF c = 1 THEN r.totalImported ELSE 0]
    /\ res = [c \in Callers |-> "none"]
    /\ gdbInitialized = TRUE
    /\ markerInitialized = TRUE
    /\ op = [c \in Callers |-> IF c = 1 THEN "annotate" ELSE "none"]
    /\ pc = [c \in Callers |-> IF c = 1 THEN "initialized" ELSE "idle"]
    /\ last = NoResult
    /\ GeneratorsOff

NextAnnot == AnalyzeResumed(1, AllTexts)

SpecAnnot == InitAnnot /\ [][NextAnnot]_vars

\* The annotation of sentences: longer texts, of several words, over the
\* letters, the space and the comma.
MaxSentenceLen == 5
SentenceChars == {"u", "b", " ", ","}
SentenceTexts == UNION {[1..n -> SentenceChars] : n \in 0..MaxSentenceLen}

NextSentences == AnalyzeResumed(1, SentenceTexts)

SpecSentences == InitAnnot /\ [][NextSentences]_vars

-----------------------------------------------------------------------------
(* The OpenRouter generator (generate-dataset-openrouter.ts), one session *)

\* CONFIG.batchSize
BatchSize == 100
\* Number of batches of a session: sentencesPerSession / batchSize (9 with
\* the default of 900 sentences).
NumBatches == 3
\* CONFIG.sentencesPerSession (--sentences-per-session)
SentencesPerSession == NumBatches * BatchSize
\* CONFIG.parallelBatches (--parallel-batches)
ParallelBatches == 2
\* How often the generator process is started.
MaxRuns == 2
\* the 100 of `sentences.length % 100 === 0`
SaveEvery == 100
\* the 10000 and the 100 of `sessionNum * 10000 + batchNum * 100`
SessionStride == 10000
BatchStride == 100
\* The session that is generated.
SessionNum == 1

\* Math.ceil(a / b) for b > 0
Ceil(a, b) == -((-a) \div b)

Min(a, b) == IF a < b THEN a ELSE b

\* What generateBatchWithInfo resolves to: the API returns the 100 sentences
\* of the schema and the validator accepts all of them or rejects one (here
\* the last), or every attempt fails and the batch is empty.
BatchOutcomes == {"complete", "oneRejected", "failed"}

AcceptedCount(outcome) ==
    CASE outcome = "complete" -> BatchSize
      [] outcome = "oneRejected" -> BatchSize - 1
      [] OTHER -> 0

\* generateBatch, lines 320-370: the sentences of a batch, each represented
\* by the number of its id (`${sessionNum}_${sentenceId}`)
GenerateBatch(sessionNum, batchNum, outcome) ==
    LET baseNum == sessionNum * SessionStride + batchNum * BatchStride
    IN  [k \in 1..AcceptedCount(outcome) |-> baseNum + (k - 1) + 1]

\* The process is not running; there are no files yet.
OpenRouterStopped ==
    [pc |-> "stopped", sentences |-> <<>>, batchesNeeded |-> 0, groupIndex |-> 0,
     tempFile |-> <<>>, tempExists |-> FALSE,
     sessionFile |-> <<>>, sessionExists |-> FALSE, runs |-> 0]

\* No caller of the accent marker is running.
MarkerIdle ==
    /\ files = [f \in Files |-> DocMissing]
    /\ db = EmptyDb
    /\ gdbInitialized = FALSE
    /\ markerInitialized = FALSE
    /\ op = [c \in Callers |-> "none"]
    /\ pc = [c \in Callers |-> "idle"]
    /\ fileIdx = [c \in Callers |-> 0]
    /\ totalImported = [c \in Callers |-> 0]
    /\ res = [c \in Callers |-> "none"]
    /\ last = NoResult

markerVars == <<files, db, gdbInitialized, markerInitialized, op, pc, fileIdx,
                totalImported, res, last>>

InitOpenRouter ==
    /\ MarkerIdle
    /\ openRouter = OpenRouterStopped
    /\ gemini = NotRunning

\* The process is started: generate() finds the session file and skips the
\* session, or takes the temp file's sentences and enters generateSession,
\* which runs up to its loop (lines 152-195).
OpenRouterGenerate ==
    /\ openRouter.pc = "stopped"
    /\ openRouter.runs < MaxRuns
    /\ LET existingSentences == IF openRouter.tempExists THEN openRouter.tempFile
                                ELSE <<>>
           batchesNeeded == Ceil(SentencesPerSession - Len(existingSentences), BatchSize)
       IN  openRouter' =
               IF openRouter.sessionExists
               THEN [openRouter EXCEPT !.pc = "done", !.runs = @ + 1]
               ELSE [openRouter EXCEPT !.pc = "group",
                                       !.runs = @ + 1,
                                       !.sentences = existingSentences,
                                       !.batchesNeeded = batchesNeeded,
                                       !.groupIndex = 0]
    /\ UNCHANGED <<markerVars, gemini>>

\* Math.ceil(batchesNeeded / parallelBatches)
BatchGroups(batchesNeeded) == Ceil(batchesNeeded, ParallelBatches)

\* lines 217-219: whether the group is followed by saveIncremental
SavesAfterGroup(sentences) ==
    Len(sentences) % SaveEvery = 0 \/ Len(sentences) >= SentencesPerSession

\* One turn of the loop of generateSession (lines 197-224): the batches of
\* the group are started with their batch numbers, all of them resolve, their
\* sentences are appended in order and the temp file is written or not.
OpenRouterGroup ==
    /\ openRouter.pc = "group"
    /\ openRouter.batchesNeeded > 0
    /\ openRouter.groupIndex < BatchGroups(openRouter.batchesNeeded)
    /\ LET startBatch == openRouter.groupIndex * ParallelBatches
           endBatch == Min(startBatch + ParallelBatches, openRouter.batchesNeeded)
           currentBatchNum(i) ==
               (Len(openRouter.sentences) \div BatchSize) + i - startBatch
       IN  \E outcome \in [startBatch..(endBatch - 1) -> BatchOutcomes] :
               LET results == [k \in 1..(endBatch - startBatch) |->
                                  GenerateBatch(SessionNum,
                                                currentBatchNum(startBatch + k - 1),
                                                outcome[startBatch + k - 1])]
                   sentences == openRouter.sentences \o Concat(results)
               IN  openRouter' =
                       [openRouter EXCEPT
                           !.sentences = sentences,
                           !.groupIndex = @ + 1,
                           !.tempFile = IF SavesAfterGroup(sentences)
                                        THEN sentences ELSE @,
                           !.tempExists = @ \/ SavesAfterGroup(sentences)]
    /\ UNCHANGED <<markerVars, gemini>>

\* generateSession returns (lines 191-193 or 226) and saveSession writes the
\* session file and removes the temp file
OpenRouterSaveSession ==
    /\ openRouter.pc = "group"
    /\ \/ openRouter.batchesNeeded <= 0
       \/ openRouter.groupIndex >= BatchGroups(openRouter.batchesNeeded)
    /\ openRouter' =
           [openRouter EXCEPT
               !.pc = "done",
               !.sessionFile =
                   IF openRouter.batchesNeeded = 0 THEN openRouter.sentences
                   ELSE SliceTo(openRouter.sentences,
                                Min(SentencesPerSession, Len(openRouter.sentences))),
               !.sessionExists = TRUE,
               !.tempFile = <<>>,
               !.tempExists = FALSE]
    /\ UNCHANGED <<markerVars, gemini>>

\* The process is killed while a group is in progress: what it holds in
\* memory is gone, the files stay.
OpenRouterInterrupt ==
    /\ openRouter.pc = "group"
    /\ openRouter' = [openRouter EXCEPT !.pc = "stopped", !.sentences = <<>>,
                                        !.batchesNeeded = 0, !.groupIndex = 0]
    /\ UNCHANGED <<markerVars, gemini>>

NextOpenRouter ==
    \/ OpenRouterGenerate
    \/ OpenRouterGroup
    \/ OpenRouterSaveSession
    \/ OpenRouterInterrupt

SpecOpenRouter == InitOpenRouter /\ [][NextOpenRouter]_vars

-----------------------------------------------------------------------------
(* The Gemini generator (generate-dataset.ts), one session.  CONFIG has      *)
(* parallelBatches: 1, so a batch group is one batch.  A sentence is         *)
(* represented by its batchNum.                                              *)

\* CONFIG.batchSize (300 in the code)
GeminiBatchSize == 2
\* Number of batches of a session: sentencesPerSession / batchSize
GeminiBatchCount == 3
\* CONFIG.sentencesPerSession
GeminiSentencesPerSession == GeminiBatchCount * GeminiBatchSize
\* const maxRetries of generateBatchWithInfo
maxRetries == 5

GeminiStopped ==
    [pc |-> "stopped", sentences |-> <<>>, startBatch |-> 0, i |-> 0,
     retryCount |-> 0, attempts |-> 0, lastOutcome |-> "none", error |-> "none",
     result |-> <<>>,
     tempFile |-> <<>>, tempExists |-> FALSE,
     sessionFile |-> <<>>, sessionExists |-> FALSE, runs |-> 0]

InitGemini ==
    /\ MarkerIdle
    /\ gemini = GeminiStopped
    /\ openRouter = NotRunning

\* The process is started: loadExistingData reads the session file if there
\* is one, generate() skips a complete session and otherwise enters
\* generateSession, which runs up to the first generateBatch (lines 75-207).
GeminiGenerate ==
    /\ gemini.pc \in {"stopped", "exited"}
    /\ gemini.runs < MaxRuns
    /\ LET existingSentences == IF gemini.sessionExists THEN gemini.sessionFile
                                ELSE <<>>
           batchCount == Ceil(GeminiSentencesPerSession, GeminiBatchSize)
           completedBatches == Len(existingSentences) \div GeminiBatchSize
           started == [gemini EXCEPT !.runs = @ + 1,
                                     !.sentences = existingSentences,
                                     !.startBatch = completedBatches,
                                     !.i = completedBatches,
                                     !.retryCount = 0,
                                     !.attempts = 0,
                                     !.lastOutcome = "none",
                                     !.error = "none",
                                     !.result = <<>>]
       IN  gemini' =
               IF Len(existingSentences) >= GeminiSentencesPerSession
               THEN [started EXCEPT !.pc = "done"]
               ELSE IF completedBatches < batchCount
               THEN [started EXCEPT !.pc = "batch"]
               ELSE [started EXCEPT !.pc = "finalize"]
    /\ UNCHANGED <<markerVars, openRouter>>

\* The errors callGeminiWithRetry rejects with: at once for a message with
\* Invalid API key, Quota exceeded or Model not found (api-utils.ts lines
\* 87-95), after its own attempts for any other failure (lines 111-115).
ApiErrors == {"nonRetryable", "exhausted"}

MayRetryMutant(retryCount) == retryCount < maxRetries

\* retryCount < maxRetries - 1 (lines 254 and 273)
MayRetry(retryCount) == retryCount < maxRetries - 1

\* generateBatchWithInfo is in its loop (line 249) and awaits generateBatch
InBatch ==
    /\ gemini.pc = "batch"
    /\ gemini.retryCount < maxRetries

\* generateBatch resolves with sentences and generateBatchWithInfo returns
\* them (lines 251-269)
GeminiBatchSucceeds ==
    /\ InBatch
    /\ \E n \in {GeminiBatchSize - 1, GeminiBatchSize} :
           /\ n > 0
           /\ gemini' = [gemini EXCEPT !.attempts = @ + 1,
                                       !.lastOutcome = "sentences",
                                       !.error = "none",
                                       !.result = [k \in 1..n |-> gemini.i],
                                       !.pc = "save"]
    /\ UNCHANGED <<markerVars, openRouter>>

\* generateBatch resolves with no sentence and the batch is tried again
\* (lines 254-260)
GeminiBatchEmptyRetry ==
    /\ InBatch
    /\ MayRetry(gemini.retryCount)
    /\ gemini' = [gemini EXCEPT !.attempts = @ + 1,
                                !.lastOutcome = "empty",
                                !.error = "none",
                                !.retryCount = @ + 1]
    /\ UNCHANGED <<markerVars, openRouter>>

\* generateBatch resolves with no sentence on the last attempt:
\* process.exit(1) (lines 263-266)
GeminiBatchEmptyExit ==
    /\ InBatch
    /\ ~ MayRetry(gemini.retryCount)
    /\ gemini' = [gemini EXCEPT !.attempts = @ + 1,
                                !.lastOutcome = "empty",
                                !.error = "none",
                                !.pc = "exited",
                                !.sentences = <<>>]
    /\ UNCHANGED <<markerVars, openRouter>>

\* generateBatch rejects and the batch is tried again (lines 270-279)
GeminiBatchThrowsRetry ==
    /\ InBatch
    /\ MayRetry(gemini.retryCount)
    /\ \E error \in ApiErrors :
           gemini' = [gemini EXCEPT !.attempts = @ + 1,
                                    !.lastOutcome = "threw",
                                    !.error = error,
                                    !.retryCount = @ + 1]
    /\ UNCHANGED <<markerVars, openRouter>>

\* generateBatch rejects on the last attempt: the batch is returned empty
\* (lines 281-283)
GeminiBatchThrowsGiveUp ==
    /\ InBatch
    /\ ~ MayRetry(gemini.retryCount)
    /\ \E error \in ApiErrors :
           gemini' = [gemini EXCEPT !.attempts = @ + 1,
                                    !.lastOutcome = "threw",
                                    !.error = error,
                                    !.result = <<>>,
                                    !.pc = "save"]
    /\ UNCHANGED <<markerVars, openRouter>>

\* The ways one generateBatch call can settle.
GeminiAttempt ==
    \/ GeminiBatchSucceeds
    \/ GeminiBatchEmptyRetry
    \/ GeminiBatchEmptyExit
    \/ GeminiBatchThrowsRetry
    \/ GeminiBatchThrowsGiveUp

\* lines 208-232: the group's result is appended, saveIncremental writes the
\* temp file, and the loop goes on to the next batch or ends
GeminiSaveIncremental ==
    /\ gemini.pc = "save"
    /\ LET sentences == gemini.sentences \o gemini.result
           batchCount == Ceil(GeminiSentencesPerSession, GeminiBatchSize)
       IN  gemini' = [gemini EXCEPT
                          !.sentences = sentences,
                          !.tempFile = sentences,
                          !.tempExists = TRUE,
                          !.i = @ + 1,
                          !.retryCount = 0,
                          !.attempts = 0,
                          !.lastOutcome = "none",
                          !.error = "none",
                          !.result = <<>>,
                          !.pc = IF gemini.i + 1 < batchCount THEN "batch"
                                 ELSE "finalize"]
    /\ UNCHANGED <<markerVars, openRouter>>

\* lines 141-149: saveSentences writes the session file
GeminiSaveSentences ==
    /\ gemini.pc = "finalize"
    /\ gemini' = [gemini EXCEPT !.sessionFile = gemini.sentences,
                                !.sessionExists = TRUE,
                                !.pc = "done"]
    /\ UNCHANGED <<markerVars, openRouter>>

\* The process is killed in the middle of the session: what it holds in
\* memory is gone, the files stay.
GeminiInterrupt ==
    /\ gemini.pc \in {"batch", "save", "finalize"}
    /\ gemini' = [gemini EXCEPT !.pc = "stopped", !.sentences = <<>>,
                                !.retryCount = 0, !.attempts = 0,
                                !.lastOutcome = "none", !.error = "none",
                                !.result = <<>>]
    /\ UNCHANGED <<markerVars, openRouter>>

NextGemini ==
    \/ GeminiGenerate
    \/ GeminiBatchSucceeds
    \/ GeminiBatchEmptyRetry
    \/ GeminiBatchEmptyExit
    \/ GeminiBatchThrowsRetry
    \/ GeminiBatchThrowsGiveUp
    \/ GeminiSaveIncremental
    \/ GeminiSaveSentences
    \/ GeminiInterrupt

SpecGemini == InitGemini /\ [][NextGemini]_vars

\* Every generateBatch call settles: the API call has a timeout and a bounded
\* number of retries of its own, and the delays between attempts are timers.
SpecGeminiFair == SpecGemini /\ WF_vars(GeminiAttempt)

-----------------------------------------------------------------------------
(* Properties *)

\* importFromXML of caller c has passed the count check and is in its loop
ImportInProgress(c) == pc[c] \in {"exists", "readFile"}

\* Caller c's running import has already run importData on document f.
HasImported(c, f) ==
    /\ ImportInProgress(c)
    /\ fileIdx[c] > f
    /\ files[f].status = "ok"

\* The word_forms rows one import of the documents inserts.
FormsOfOneImport == ImportFiles(EmptyDb, files, 1, 0).db.forms

\* C1: when several callers initialize a not-yet-initialized marker over an
\* empty index concurrently, the documents are imported at most once: no two
\* running imports have both processed the same document, and word_forms never
\* holds more rows than one import inserts.
C1_ImportedAtMostOnce ==
    /\ \A c, d \in Callers : \A f \in Files :
           c # d => ~ (HasImported(c, f) /\ HasImported(d, f))
    /\ Len(db.forms) <= Len(FormsOfOneImport)

\* A step in which analyzeAndAccent of caller c does its lexicon lookups.
LooksUp(c) == AnalyzeSync(c, SampleTexts) \/ AnalyzeResumed(c, SampleTexts)

\* C2: no analyzeAndAccent call does its lexicon lookups while the import of
\* another caller is still running.
C2_NoLookupDuringImport ==
    [][\A c \in Callers :
          LooksUp(c) => ~ \E d \in Callers : d # c /\ ImportInProgress(d)]_vars

Letters == {"u", "U", "b", "B", "w", "W"}

RECURSIVE IsMarkInsertion(_, _, _)
\* acc is orig with U+0301 inserted at some places, each directly after a
\* letter of orig (afterLetter: the character before is a letter of orig)
IsMarkInsertion(orig, acc, afterLetter) ==
    IF acc = <<>> THEN orig = <<>>
    ELSE \/ /\ orig # <<>>
            /\ Head(acc) = Head(orig)
            /\ IsMarkInsertion(Tail(orig), Tail(acc), Head(orig) \in Letters)
         \/ /\ Head(acc) = ACUTE
            /\ afterLetter
            /\ IsMarkInsertion(orig, Tail(acc), FALSE)

\* C3: the parts of the split concatenate to the input, and accentedText is
\* the input with U+0301 inserted directly after letters of word parts and
\* nothing else changed: delimiter parts are emitted as they are, every word
\* part keeps its letters and their case.
C3_OnlyMarksInserted ==
    /\ Concat(last.words) = last.text
    /\ Len(last.parts) = Len(last.words)
    /\ IsMarkInsertion(last.text, last.accentedText, FALSE)
    /\ \A i \in 1..Len(last.parts) :
           /\ last.parts[i].part = last.words[i]
           /\ IsMarkInsertion(last.words[i], last.parts[i].out, FALSE)
           /\ IsDelimiterPart(last.words[i]) => last.parts[i].out = last.words[i]

IsMixedCase(w) ==
    /\ w # ToLowerCase(w)
    /\ w # ToUpperCase(w)
    /\ ~ (w[1] = ToUpperChar(w[1]) /\ SliceFrom(w, 1) = ToLowerCase(SliceFrom(w, 1)))

\* A text with a delimiter and a mixed-case word that received a mark.
C3_Witness ==
    /\ \E i \in 1..Len(last.parts) : IsDelimiterPart(last.parts[i].part)
    /\ \E i \in 1..Len(last.parts) :
           /\ IsMixedCase(last.parts[i].part)
           /\ last.parts[i].out # last.parts[i].part

AccentedWordsAt(position) ==
    {k \in 1..Len(last.accentedWords) : last.accentedWords[k].position = position}

\* C4: a token with at least two vowel letters that resolves to a technical
\* entry is emitted with an inserted U+0301, and one AccentedWord with reason
\* uncommon is recorded for it.
C4_TechnicalAlwaysMarked ==
    \A i \in 1..Len(last.parts) :
        LET p == last.parts[i]
        IN  (/\ ~ IsDelimiterPart(p.part)
             /\ CountSyllables(p.part) >= 2
             /\ p.info # <<>>
             /\ p.info[1].is_technical)
            => /\ Len(p.out) = Len(p.part) + 1
               /\ \E k \in 1..Len(p.out) : p.out[k] = ACUTE
               /\ Cardinality(AccentedWordsAt(p.position)) = 1
               /\ \A k \in AccentedWordsAt(p.position) :
                      /\ last.accentedWords[k].reason = "uncommon"
                      /\ last.accentedWords[k].word = p.part

\* C5: a token with at most one vowel letter is emitted unchanged and no
\* AccentedWord is recorded for it, whatever entry it resolves to.
C5_SingleSyllableNeverMarked ==
    /\ \A i \in 1..Len(last.parts) :
           CountSyllables(last.parts[i].part) <= 1
           => /\ last.parts[i].out = last.parts[i].part
              /\ AccentedWordsAt(last.parts[i].position) = {}
    /\ \A k \in 1..Len(last.accentedWords) :
           CountSyllables(last.accentedWords[k].word) >= 2

\* A token with one vowel letter that resolves to a technical entry.
C5_Witness ==
    \E i \in 1..Len(last.parts) :
        /\ CountSyllables(last.parts[i].part) = 1
        /\ last.parts[i].info # <<>>
        /\ last.parts[i].info[1].is_technical

\* The index has no entry for the token, neither as lemma nor as form.
HasNoEntry(w) ==
    /\ ~ \E i \in 1..Len(db.entries) : db.entries[i].lemma = ToLowerCase(w)
    /\ ~ \E j \in 1..Len(db.forms) :
           /\ db.forms[j].form = ToLowerCase(w)
           /\ \E i \in 1..Len(db.entries) : db.entries[i].lemma = db.forms[j].lemma

\* C6: a token without a lexicon entry is emitted as it is and produces no
\* AccentedWord, and the call ends without raising; with an empty index the
\* text comes back unchanged and accentedWords is empty.
C6_UnknownPassThrough ==
    /\ \A i \in 1..Len(last.parts) :
           HasNoEntry(last.parts[i].part)
           => /\ last.parts[i].out = last.parts[i].part
              /\ AccentedWordsAt(last.parts[i].position) = {}
    /\ (db.entries = <<>>)
           => /\ last.accentedText = last.text
              /\ last.accentedWords = <<>>
    /\ pc[1] = "idle" => res[1] = "ok" /\ Concat(last.words) = last.text

\* A token with two vowel letters that a non-empty index has no entry for.
C6_Witness ==
    /\ db.entries # <<>>
    /\ res[1] = "ok"
    /\ \E i \in 1..Len(last.parts) :
           /\ CountSyllables(last.parts[i].part) >= 2
           /\ HasNoEntry(last.parts[i].part)

\* C7: once a call has completed, and with it an import, running the import
\* again over the same documents leaves the index as it is: no later step
\* changes the lemma entries or the word-form rows.
C7_ImportIdempotent ==
    [][res[1] = "ok" => db' = db]_vars

\* A second importFromXML has returned over an index with entries and forms.
C7_Witness ==
    /\ res[1] = "ok"
    /\ pc[1] = "imported"
    /\ db.entries # <<>>
    /\ db.forms # <<>>

\* The lemmas the import of one document stores.
DocLemmas(doc) ==
    IF doc.status = "ok" /\ ~ ImportData(EmptyDb, doc.paradigms).threw
    THEN LemmaKeys(ImportData(EmptyDb, doc.paradigms).db)
    ELSE {}

\* C8: a document that cannot be parsed or fails in its import is skipped:
\* no call is rejected because of it, and a completed call leaves every other
\* document imported.
C8_BadDocumentSkipped ==
    \A c \in Callers :
        /\ res[c] # "raised"
        /\ res[c] = "ok" => \A f \in Files : DocLemmas(files[f]) \subseteq LemmaKeys(db)

\* C9: an analyzeAndAccent call never succeeds on an index from which a
\* present, importable document is missing (as a failed import leaves it).
C9_NoSuccessOnPartialIndex ==
    [][\A c \in Callers :
          LooksUp(c) => \A f \in Files : DocLemmas(files[f]) \subseteq LemmaKeys(db)]_vars

\* C10: stripping the annotated text gives the same string as stripping the
\* input, and nothing of U+0300..U+036F is left in it.
C10_StripRoundTrip ==
    /\ RemoveAccents(last.accentedText) = RemoveAccents(last.text)
    /\ \A k \in 1..Len(RemoveAccents(last.accentedText)) :
           RemoveAccents(last.accentedText)[k] \notin CombiningRange

\* A marked text with a precomposed letter, which NFD takes apart.
C10_Witness ==
    /\ last.accentedText # last.text
    /\ NFD(last.text) # last.text

IsAllUppercase(w) == w = ToUpperCase(w) /\ w # ToLowerCase(w)

\* the number of U+0301 in s
AcuteCount(s) == Cardinality({k \in 1..Len(s) : s[k] = ACUTE})

\* C11: an all-uppercase token with at least two vowel letters that resolves
\* to a technical entry is emitted with its uppercase letters kept and exactly
\* one U+0301 inserted, at the place where the all-lowercase spelling of the
\* token receives its mark.
C11_UppercaseMarked ==
    \A i \in 1..Len(last.parts) :
        LET p == last.parts[i]
            lower == AccentPart(ToLowerCase(p.part), p.position, p.info)
        IN  (/\ IsAllUppercase(p.part)
             /\ CountSyllables(p.part) >= 2
             /\ p.info # <<>>
             /\ p.info[1].is_technical)
            => /\ IsMarkInsertion(p.part, p.out, FALSE)
               /\ AcuteCount(p.out) = AcuteCount(p.part) + 1
               /\ p.out = ToUpperCase(lower.out)

\* A step of an analyzeAndAccent call of caller c.
AnnotateStep(c) ==
    \/ LooksUp(c)
    \/ op[c] = "annotate" /\ pc'[c] # pc[c]

\* The index a single caller leaves when it initializes the marker over the
\* documents with nobody else running.
AloneDb == ImportFiles(EmptyDb, files, 1, 0).db

\* The values analyzeAndAccent can return for the sample texts when it runs
\* alone.
AloneResults ==
    UNION {{AnalyzeText(text, pick) : pick \in Picks(AloneDb, text)} :
               text \in SampleTexts}

\* C12: once the marker is initialized, no step of an analyzeAndAccent call
\* changes the index or the initialization flags, and every call returns what
\* it returns when it runs alone.
C12_AnnotateReadOnly ==
    [][\A c \in Callers :
          (markerInitialized /\ AnnotateStep(c))
          => /\ db' = db
             /\ UNCHANGED <<gdbInitialized, markerInitialized, files>>
             /\ LooksUp(c) => last' \in AloneResults]_vars

\* The parts emitted in a changed form.
ChangedParts == {i \in 1..Len(last.parts) : last.parts[i].out # last.parts[i].part}

\* C17: accentedWords has exactly one element for every token emitted in a
\* changed form and none for any other token, and the accentedForm of every
\* AccentedWord differs from its word.
C17_RecordedIffChanged ==
    /\ Len(last.accentedWords) = Cardinality(ChangedParts)
    /\ \A i \in ChangedParts :
           \E k \in 1..Len(last.accentedWords) :
               /\ last.accentedWords[k].word = last.parts[i].part
               /\ last.accentedWords[k].position = last.parts[i].position
               /\ last.accentedWords[k].accentedForm = last.parts[i].out
    /\ \A k \in 1..Len(last.accentedWords) :
           last.accentedWords[k].accentedForm # last.accentedWords[k].word

\* The word_forms rows through which the form query resolves token w to the
\* entry e, when the lemma lookup finds nothing.
ResolvingForms(w, e) ==
    IF GetStressInfo(db, w) # <<>> THEN {}
    ELSE {j \in 1..Len(db.forms) :
            /\ db.forms[j].form = ToLowerCase(w)
            /\ db.forms[j].lemma = e.lemma
            /\ db.forms[j].form_with_stress # <<>>}

\* C18: a token resolved through a word-form row that has a marked string is
\* marked at the position of the marker in that string, not at the lemma's
\* stress_position.
C18_FormStressUsed ==
    \A i \in 1..Len(last.parts) :
        LET p == last.parts[i]
        IN  (p.pushed /\ ResolvingForms(p.part, p.info[1]) # {})
            => \E j \in ResolvingForms(p.part, p.info[1]) :
                   p.out = PreserveCase(p.part,
                               ApplyStressToWord(p.part,
                                   IndexOf(db.forms[j].form_with_stress, MARKER)))

\* The vowel the mark belongs after for a stress offset: the first vowel at
\* or after the offset, else the nearest one before it (0-based, -1 when the
\* token has no vowel).
StressedVowel(word, stressPosition) ==
    LET atOrAfter == {v \in 0..(Len(word) - 1) :
                        v >= stressPosition /\ IsVowel(word[v + 1])}
        before == {v \in 0..(Len(word) - 1) :
                     v < stressPosition /\ IsVowel(word[v + 1])}
    IN  IF atOrAfter # {} THEN CHOOSE v \in atOrAfter : \A u \in atOrAfter : v <= u
        ELSE IF before # {} THEN CHOOSE v \in before : \A u \in before : v >= u
        ELSE -1

\* C19: for the tokens and the stored offsets applyStressToWord is called
\* with, one U+0301 is inserted directly after the vowel the offset points to,
\* and the token is returned as it is only when it has no vowel.
C19_MarkAfterStressedVowel ==
    \A i \in 1..Len(last.parts) :
        LET p == last.parts[i]
            v == StressedVowel(p.part, p.info[1].stress_position)
        IN  p.pushed
            => p.out = IF v = -1 THEN p.part
                       ELSE PreserveCase(p.part,
                                SliceTo(p.part, v + 1) \o <<ACUTE>>
                                    \o SliceFrom(p.part, v + 1))

\* C20: a stored entry is technical exactly when none of its attesting
\* dictionaries is a general-use one; an entry without attesting dictionaries
\* is technical.
C20_TechnicalIffNoGeneralSource ==
    \A i \in 1..Len(db.entries) :
        db.entries[i].is_technical <=>
            ~ \E k \in 1..Len(db.entries[i].sources) :
                  \E dict \in GeneralDictionaries :
                      SourceIncludes(db.entries[i].sources[k], dict)

\* the elements of a sequence
Range(s) == {s[k] : k \in 1..Len(s)}

\* C13: no two sentences of the session have the same id, neither among the
\* sentences generateSession holds nor in the files written from them.
C13_SentenceIdsUnique ==
    /\ Cardinality(Range(openRouter.sentences)) = Len(openRouter.sentences)
    /\ Cardinality(Range(openRouter.tempFile)) = Len(openRouter.tempFile)
    /\ Cardinality(Range(openRouter.sessionFile)) = Len(openRouter.sessionFile)

\* C15: after every completed batch group the temp file of the session holds
\* the sentences generated so far.
C15_SavedAfterEveryGroup ==
    (openRouter.pc = "group" /\ openRouter.groupIndex > 0)
    => /\ openRouter.tempExists
       /\ openRouter.tempFile = openRouter.sentences

\* The restarted process is at the first generateBatch of its generateSession
\* and the temp file of the interrupted session is there.
ResumedMidSession ==
    /\ gemini.runs >= 2
    /\ gemini.pc = "batch"
    /\ gemini.i = gemini.startBatch
    /\ gemini.attempts = 0
    /\ gemini.tempExists
    /\ ~ gemini.sessionExists

\* C14: after an interruption in the middle of the session the restarted
\* generator holds the sentences saved incrementally and continues with the
\* first batch that was not saved.
C14_ResumesFromIncrementalSave ==
    ResumedMidSession
    => /\ gemini.sentences = gemini.tempFile
       /\ gemini.startBatch = Len(gemini.tempFile) \div GeminiBatchSize

\* C16: generateBatch is called at most maxRetries times for one batch; after
\* the last failed attempt the batch is not tried again (it is returned empty
\* after a rejection, the process exits after an empty result); and
\* generateBatchWithInfo always comes to an end.
C16_RetriesBounded ==
    /\ [](/\ gemini.attempts <= maxRetries
          /\ (gemini.attempts = maxRetries /\ gemini.lastOutcome = "threw")
                 => (gemini.pc = "save" /\ gemini.result = <<>>)
          /\ (gemini.attempts = maxRetries /\ gemini.lastOutcome = "empty")
                 => gemini.pc = "exited")
    /\ (gemini.pc = "batch") ~> (gemini.pc # "batch")

\* The fifth attempt of a batch was rejected and the batch was returned empty.
C16_Witness ==
    /\ gemini.attempts = maxRetries
    /\ gemini.lastOutcome = "threw"
    /\ gemini.pc = "save"

\* the grammatical tag names a proper noun: it starts with NP
StartsWithNP(tag) == Len(tag) >= 2 /\ tag[1] = "N" /\ tag[2] = "P"

\* an AccentedWord was recorded for the part
Recorded(p) ==
    \E k \in AccentedWordsAt(p.position) : last.accentedWords[k].word = p.part

\* a token with 2 or 3 vowel letters that resolved to a non-technical entry
ShortOrdinary(p) ==
    /\ ~ IsDelimiterPart(p.part)
    /\ CountSyllables(ToLowerCase(p.part)) \in {2, 3}
    /\ p.info # <<>>
    /\ ~ p.info[1].is_technical

\* C21: a token with 2 or 3 vowel letters whose entry is not technical and
\* whose tag is neither verb nor proper noun is marked exactly when none of the
\* entry's attesting dictionaries is a general-use one (an entry without
\* attesting dictionaries included), and then its reason is uncommon.
C21_ShortMarkedIffNoGeneralSource ==
    \A i \in 1..Len(last.parts) :
        LET p == last.parts[i]
        IN  (/\ ShortOrdinary(p)
             /\ ~ StartsWithV(p.info[1].tag)
             /\ ~ StartsWithNP(p.info[1].tag))
            => /\ Recorded(p) <=> ~ HasGeneralSource(p.info[1].sources)
               /\ Recorded(p) =>
                      \A k \in AccentedWordsAt(p.position) :
                          last.accentedWords[k].reason = "uncommon"

\* C22: a token with 2 or 3 vowel letters whose non-technical entry has a tag
\* starting with V or with NP is marked, whatever follows the prefix.
C22_VerbAndProperNounMarked ==
    \A i \in 1..Len(last.parts) :
        LET p == last.parts[i]
        IN  (/\ ShortOrdinary(p)
             /\ (StartsWithV(p.info[1].tag) \/ StartsWithNP(p.info[1].tag)))
            => Recorded(p)

\* the paradigms of the documents whose lemma attribute has no marker
UnmarkedLemmas ==
    UNION {{files[f].paradigms[k].lemma :
               k \in {j \in 1..Len(files[f].paradigms) :
                        IndexOf(files[f].paradigms[j].lemma, MARKER) = -1}} :
           f \in Files}

\* C23: the stress position of every stored entry is an offset into its lemma,
\* and a paradigm whose lemma attribute has no marker leaves no entry and no
\* word form.
C23_StressPositionInLemma ==
    /\ \A i \in 1..Len(db.entries) :
           /\ 0 <= db.entries[i].stress_position
           /\ db.entries[i].stress_position < Len(db.entries[i].lemma)
    /\ \A lemma \in UnmarkedLemmas :
           /\ \A i \in 1..Len(db.entries) :
                  db.entries[i].lemma_with_stress # lemma
           /\ \A j \in 1..Len(db.forms) : db.forms[j].lemma # lemma

\* C24: every form string of the word-form index belongs to one lemma, so the
\* form query has one possible result for every form.
C24_FormHasOneLemma ==
    /\ \A j, k \in 1..Len(db.forms) :
           db.forms[j].form = db.forms[k].form
           => db.forms[j].lemma = db.forms[k].lemma
    /\ \A j \in 1..Len(db.forms) :
           Cardinality(FormMatches(db, db.forms[j].form)) <= 1

\* The paradigms with a marker that the running import of caller 1 has
\* processed so far, in document order.
StoredParadigms ==
    SelectSeq(Concat([f \in 1..(fileIdx[1] - 1) |->
                         IF files[f].status = "ok" THEN files[f].paradigms
                         ELSE <<>>]),
              LAMBDA par : IndexOf(par.lemma, MARKER) # -1)

\* the slouniki attribute a paradigm's entry is stored with
AttestedBy(par) ==
    LET attested == SelectSeq(par.variants, LAMBDA v : v.slouniki # <<>>)
    IN  IF attested = <<>> THEN <<>> ELSE attested[Len(attested)].slouniki

\* the entry of the index is the one the paradigm describes
IsEntryOf(e, par) ==
    /\ e.lemma = StripMarker(par.lemma)
    /\ e.lemma_with_stress = par.lemma
    /\ e.stress_position = IndexOf(par.lemma, MARKER)
    /\ e.tag = par.tag
    /\ e.sources = AttestedBy(par)
    /\ e.is_technical = (AttestedBy(par) # <<>> /\ CheckIfTechnical(AttestedBy(par)))

\* the form strings a paradigm lists
FormsOf(par) ==
    UNION {{StripMarker(par.variants[v].forms[k].text) :
               k \in 1..Len(par.variants[v].forms)} :
           v \in 1..Len(par.variants)}

\* C25: the index never holds two entries for one lemma; during an import the
\* entry of a lemma is that of the last paradigm processed with this lemma,
\* and the word forms of every processed paradigm, replaced or not, are in the
\* index and resolve to the surviving entry.
C25_LaterParadigmReplaces ==
    /\ \A i, j \in 1..Len(db.entries) :
           db.entries[i].lemma = db.entries[j].lemma => i = j
    /\ ImportInProgress(1) =>
           /\ LemmaKeys(db) =
                  {StripMarker(StoredParadigms[k].lemma) :
                       k \in 1..Len(StoredParadigms)}
           /\ \A k \in 1..Len(StoredParadigms) :
                  LET par == StoredParadigms[k]
                      lemma == StripMarker(par.lemma)
                      last_k == CHOOSE m \in k..Len(StoredParadigms) :
                                   /\ StripMarker(StoredParadigms[m].lemma) = lemma
                                   /\ \A n \in (m + 1)..Len(StoredParadigms) :
                                          StripMarker(StoredParadigms[n].lemma) # lemma
                  IN  /\ IsEntryOf(EntryOf(db, lemma), StoredParadigms[last_k])
                      /\ \A form \in FormsOf(par) :
                             /\ \E j \in 1..Len(db.forms) :
                                    /\ db.forms[j].form = form
                                    /\ db.forms[j].lemma = lemma
                             /\ EntryOf(db, lemma) \in FormMatches(db, form)

\* An import has processed a paradigm with word forms and then a different
\* paradigm of the same lemma.
C25_Witness ==
    /\ ImportInProgress(1)
    /\ \E k, m \in 1..Len(StoredParadigms) :
           /\ k < m
           /\ StripMarker(StoredParadigms[k].lemma) = StripMarker(StoredParadigms[m].lemma)
           /\ StoredParadigms[k].tag # StoredParadigms[m].tag
           /\ FormsOf(StoredParadigms[k]) # {}

\* the priority rules select the token: technical entry, at least 4 vowel
\* letters, verb or proper-noun tag, or no general-use dictionary
SelectedByRules(p) ==
    /\ p.info # <<>>
    /\ CountSyllables(ToLowerCase(p.part)) >= 2
    /\ \/ p.info[1].is_technical
       \/ CountSyllables(ToLowerCase(p.part)) >= 4
       \/ StartsWithV(p.info[1].tag)
       \/ StartsWithNP(p.info[1].tag)
       \/ ~ HasGeneralSource(p.info[1].sources)

C27_PositionsLocateWords ==
    /\ \A k \in 1..Len(last.accentedWords) :
           LET w == last.accentedWords[k]
           IN  /\ w.position + Len(w.word) <= Len(last.text)
               /\ SubSeq(last.text, w.position + 1, w.position + Len(w.word)) = w.word
    /\ \A k, m \in 1..Len(last.accentedWords) :
           k < m => last.accentedWords[k].position < last.accentedWords[m].position

\* Two words of a sentence were marked, the second one lying after the
\* first and a delimiter.
C27_Witness ==
    /\ Len(last.accentedWords) >= 2
    /\ last.accentedWords[2].position > Len(last.accentedWords[1].word)

\* C28: when the import of a document fails part-way through its paradigms,
\* the index is left as it was before the document: nothing of the failed
\* document is in it and the entries of the earlier documents are unchanged.
C28_FailedDocumentLeavesNothing ==
    [][\A c \in Callers :
          (/\ pc[c] = "readFile"
           /\ files[fileIdx[c]].status = "ok"
           /\ res'[c] = "raised"
           /\ pc'[c] = "idle")
          => db' = db]_vars

\* The import failed in the second paradigm of a document, after an earlier
\* document with the same lemma had been imported.
C28_Witness ==
    /\ res[1] = "raised"
    /\ pc[1] = "idle"
    /\ fileIdx[1] > 1
    /\ files[fileIdx[1]] = DocC
    /\ StripMarker(ParProper.lemma) \in LemmaKeys(db)
    /\ db.forms # <<>>

\* C29: after a generateBatch call was rejected with a non-retryable Gemini
\* error, generateBatch (and with it the Gemini call of its line 313) is not
\* called again for that batch.
C29_NoCallAfterNonRetryable ==
    [][(gemini.pc = "batch" /\ gemini.error = "nonRetryable")
           => ~ (gemini'.attempts = gemini.attempts + 1)]_vars

\* The lookups of a second call over the same index: a token looked up in
\* the first call gets the same row again.
SecondPicks ==
    {pick \in Picks(db, last.accentedText) :
        \A i \in 1..Len(last.parts) :
            (/\ ~ IsDelimiterPart(last.parts[i].part)
             /\ last.parts[i].part \in DOMAIN pick)
            => pick[last.parts[i].part] = last.parts[i].info}

\* no key of the index contains a combining mark
KeysWithoutMarks ==
    /\ \A i \in 1..Len(db.entries) :
           \A k \in 1..Len(db.entries[i].lemma) :
               db.entries[i].lemma[k] \notin CombiningRange
    /\ \A j \in 1..Len(db.forms) :
           \A k \in 1..Len(db.forms[j].form) :
               db.forms[j].form[k] \notin CombiningRange

\* C30: over an index whose keys contain no combining mark, annotating the
\* annotated text gives the annotated text again: no token gets a mark.
C30_AnnotateIdempotent ==
    KeysWithoutMarks =>
        \A pick \in SecondPicks :
            LET again == AnalyzeText(last.accentedText, pick)
            IN  /\ again.accentedText = last.accentedText
                /\ \A k \in 1..Len(again.accentedWords) :
                       again.accentedWords[k].accentedForm = again.accentedWords[k].word

\* The first annotation has marked a token.
C30_Witness ==
    /\ KeysWithoutMarks
    /\ last.accentedText # last.text
    /\ \E k \in 1..Len(last.accentedWords) :
           AcuteCount(last.accentedWords[k].accentedForm)
               = AcuteCount(last.accentedWords[k].word) + 1
    /\ SecondPicks # {}

=============================================================================
